---- MODULE Spec2Model ----
(***************************************************************************)
(* PyRTL pyrtl/inputoutput.py: the BLIF importer (input_from_blif), the    *)
(* Verilog exporter (OutputToVerilog, _VerilogSanitizer) and the testbench *)
(* exporter (output_verilog_testbench).                                    *)
(*                                                                         *)
(* Signal names and identifiers are sequences of one-character strings, so *)
(* that the regular expressions of the source can be evaluated on them.    *)
(* The block is a sequence of wires (a wire's identity is its position)    *)
(* and a sequence of logic nets whose arguments and destinations are wire  *)
(* positions.  Emitted text is a sequence of line records.                 *)
(***************************************************************************)
EXTENDS Integers, Sequences, FiniteSets, TLC

VARIABLES
    blif,              \* the sections of the BLIF text read so far, by their keywords
    model,             \* the parsed BLIF model: input_list, output_list, command_list
    merge_io_vectors,  \* argument of input_from_blif
    pc,                \* position in import / export
    cmd_i,             \* index of the next command of model.command_list
    wirevector_set,    \* block.wirevector_set, in creation order
    logic,             \* block.logic, in creation order
    next_tmp,          \* the block's counter for names of anonymous wires
    clk_set,           \* input_from_blif: clk_set
    ff_clk_set,        \* input_from_blif: ff_clk_set
    mark,              \* sizes of the block before the command handled last
    internal_names,    \* OutputToVerilog.internal_names
    file,              \* text written by OutputToVerilog
    ver_name,          \* output_verilog_testbench: ver_name
    tb_file            \* text written by output_verilog_testbench

vars == <<blif, model, merge_io_vectors, pc, cmd_i, wirevector_set, logic, next_tmp,
          clk_set, ff_clk_set, mark, internal_names, file, ver_name, tb_file>>

----------------------------------------------------------------------------
(* Bounds *)

\* longest command list of an imported model
MaxCmds == 2
\* number of cycles of a simulation trace
TraceLen == 1
\* number of names registered with one sanitizer in SpecSani
MaxNames == 3

----------------------------------------------------------------------------
(* Characters and decimal conversion *)

Lower == {"a","b","c","d","e","f","g","h","i","j","k","l","m",
          "n","o","p","q","r","s","t","u","v","w","x","y","z"}
Upper == {"A","B","C","D","E","F","G","H","I","J","K","L","M",
          "N","O","P","Q","R","S","T","U","V","W","X","Y","Z"}
Digits == {"0","1","2","3","4","5","6","7","8","9"}
DigitSeq == <<"0","1","2","3","4","5","6","7","8","9">>

\* str(n) for a natural number n
RECURSIVE Str(_)
Str(n) == IF n < 10 THEN <<DigitSeq[n + 1]>>
          ELSE Str(n \div 10) \o <<DigitSeq[(n % 10) + 1]>>

Max(S) == CHOOSE m \in S : \A k \in S : k <= m

\* 2 ** n
RECURSIVE Pow2(_)
Pow2(n) == IF n = 0 THEN 1 ELSE 2 * Pow2(n - 1)

----------------------------------------------------------------------------
(* _VerilogSanitizer *)

\* _ver_regex = '[_A-Za-z][_a-zA-Z0-9\$]*$'
ver_regex_match(str) ==
    /\ Len(str) >= 1
    /\ str[1] \in ({"_"} \cup Upper \cup Lower)
    /\ \A i \in 2..Len(str) : str[i] \in ({"_", "$"} \cup Lower \cup Upper \cup Digits)

verilog_reserved_set == {
    <<"a","l","w","a","y","s">>, <<"a","n","d">>, <<"a","s","s","i","g","n">>,
    <<"a","u","t","o","m","a","t","i","c">>, <<"b","e","g","i","n">>, <<"b","u","f">>,
    <<"b","u","f","i","f","0">>, <<"b","u","f","i","f","1">>, <<"c","a","s","e">>,
    <<"c","a","s","e","x">>, <<"c","a","s","e","z">>, <<"c","e","l","l">>, <<"c","m","o","s">>,
    <<"c","o","n","f","i","g">>, <<"d","e","a","s","s","i","g","n">>,
    <<"d","e","f","a","u","l","t">>, <<"d","e","f","p","a","r","a","m">>,
    <<"d","e","s","i","g","n">>, <<"d","i","s","a","b","l","e">>, <<"e","d","g","e">>,
    <<"e","l","s","e">>, <<"e","n","d">>, <<"e","n","d","c","a","s","e">>,
    <<"e","n","d","c","o","n","f","i","g">>, <<"e","n","d","f","u","n","c","t","i","o","n">>,
    <<"e","n","d","g","e","n","e","r","a","t","e">>, <<"e","n","d","m","o","d","u","l","e">>,
    <<"e","n","d","p","r","i","m","i","t","i","v","e">>,
    <<"e","n","d","s","p","e","c","i","f","y">>, <<"e","n","d","t","a","b","l","e">>,
    <<"e","n","d","t","a","s","k">>, <<"e","v","e","n","t">>, <<"f","o","r">>,
    <<"f","o","r","c","e">>, <<"f","o","r","e","v","e","r">>, <<"f","o","r","k">>,
    <<"f","u","n","c","t","i","o","n">>, <<"g","e","n","e","r","a","t","e">>,
    <<"g","e","n","v","a","r">>, <<"h","i","g","h","z","0">>, <<"h","i","g","h","z","1">>,
    <<"i","f">>, <<"i","f","n","o","n","e">>, <<"i","n","c","d","i","r">>,
    <<"i","n","c","l","u","d","e">>, <<"i","n","i","t","i","a","l">>, <<"i","n","o","u","t">>,
    <<"i","n","p","u","t">>, <<"i","n","s","t","a","n","c","e">>, <<"i","n","t","e","g","e","r">>,
    <<"j","o","i","n">>, <<"l","a","r","g","e">>, <<"l","i","b","l","i","s","t">>,
    <<"l","i","b","r","a","r","y">>, <<"l","o","c","a","l","p","a","r","a","m">>,
    <<"m","a","c","r","o","m","o","d","u","l","e">>, <<"m","e","d","i","u","m">>,
    <<"m","o","d","u","l","e">>, <<"n","a","n","d">>, <<"n","e","g","e","d","g","e">>,
    <<"n","m","o","s">>, <<"n","o","r">>,
    <<"n","o","s","h","o","w","c","a","n","c","e","l","l","e","d","n","o">>, <<"n","o","t">>,
    <<"n","o","t","i","f","0">>, <<"n","o","t","i","f","1">>, <<"o","r">>,
    <<"o","u","t","p","u","t">>, <<"p","a","r","a","m","e","t","e","r">>, <<"p","m","o","s">>,
    <<"p","o","s","e","d","g","e">>, <<"p","r","i","m","i","t","i","v","e">>,
    <<"p","u","l","l","0">>, <<"p","u","l","l","1">>, <<"p","u","l","l","d","o","w","n">>,
    <<"p","u","l","l","u","p">>,
    <<"p","u","l","s","e","s","t","y","l","e","_","o","n","e","v","e","n","t","g","l","i","t","c","h">>,
    <<"p","u","l","s","e","s","t","y","l","e","_","o","n","d","e","t","e","c","t","g","l","i","t","c","h">>,
    <<"r","e","m","o","s">>, <<"r","e","a","l">>, <<"r","e","a","l","t","i","m","e">>,
    <<"r","e","g">>, <<"r","e","l","e","a","s","e">>, <<"r","e","p","e","a","t">>,
    <<"r","n","m","o","s">>, <<"r","p","m","o","s">>, <<"r","t","r","a","n">>,
    <<"r","t","r","a","n","i","f","0">>, <<"r","t","r","a","n","i","f","1">>,
    <<"s","c","a","l","a","r","e","d">>, <<"s","h","o","w","c","a","n","c","e","l","l","e","d">>,
    <<"s","i","g","n","e","d">>, <<"s","m","a","l","l">>, <<"s","p","e","c","i","f","y">>,
    <<"s","p","e","c","p","a","r","a","m">>, <<"s","t","r","o","n","g","0">>,
    <<"s","t","r","o","n","g","1">>, <<"s","u","p","p","l","y","0">>,
    <<"s","u","p","p","l","y","1">>, <<"t","a","b","l","e">>, <<"t","a","s","k">>,
    <<"t","i","m","e">>, <<"t","r","a","n">>, <<"t","r","a","n","i","f","0">>,
    <<"t","r","a","n","i","f","1">>, <<"t","r","i">>, <<"t","r","i","0">>, <<"t","r","i","1">>,
    <<"t","r","i","a","n","d">>, <<"t","r","i","o","r">>, <<"t","r","i","r","e","g">>,
    <<"u","n","s","i","g","n","e","d">>, <<"u","s","e">>, <<"v","e","c","t","o","r","e","d">>,
    <<"w","a","i","t">>, <<"w","a","n","d">>, <<"w","e","a","k","0">>, <<"w","e","a","k","1">>,
    <<"w","h","i","l","e">>, <<"w","i","r","e">>, <<"w","o","r">>, <<"x","n","o","r">>,
    <<"x","o","r">>
    }

VerilogMaxIdLen == 1024

extra_checks(str) == str \notin verilog_reserved_set /\ Len(str) <= VerilogMaxIdLen

\* _NameSanitizer.is_valid_str with the regex and extra checks of _VerilogSanitizer
is_valid_str(str) == ver_regex_match(str) /\ extra_checks(str)

\* a sanitizer instance: the name table and the counter of the fallback names
NameSanitizer(internal_prefix) ==
    [internal_prefix |-> internal_prefix, internal_index |-> 0, val_map |-> <<>>]

\* _NameSanitizer.make_valid_string: a valid name maps to itself, any other
\* name to internal_prefix + str(counter); a name registered before keeps
\* its identifier
make_valid_string(san, string) ==
    IF string \in DOMAIN san.val_map THEN san
    ELSE IF is_valid_str(string)
    THEN [san EXCEPT !.val_map = (string :> string) @@ @]
    ELSE [san EXCEPT !.val_map = (string :> (san.internal_prefix \o Str(san.internal_index))) @@ @,
                     !.internal_index = @ + 1]

RECURSIVE make_valid_strings(_, _)
make_valid_strings(san, names) ==
    IF names = <<>> THEN san
    ELSE make_valid_strings(make_valid_string(san, Head(names)), Tail(names))

verout_prefix == <<"_","v","e","r","o","u","t","_","t","m","p","_">>
ver_out_prefix == <<"_","v","e","r","_","o","u","t","_","t","m","p","_">>

----------------------------------------------------------------------------
(* The block: wires, logic nets and the operations that build them *)

Wire(name, kind, bitwidth, val) ==
    [name |-> name, kind |-> kind, bitwidth |-> bitwidth, val |-> val]

LogicNet(op, op_param, args, dests) ==
    [op |-> op, op_param |-> op_param, args |-> args, dests |-> dests]

\* a block value: wires w, nets l, counter t of anonymous names
Block(w, l, t) == [w |-> w, l |-> l, t |-> t]

\* block.get_wirevector_by_name: the wire of that name added last, 0 for None
get_wirevector_by_name(blk, x) ==
    LET ids == {i \in 1..Len(blk.w) : blk.w[i].name = x}
    IN  IF ids = {} THEN 0 ELSE Max(ids)

\* construction of a named wire of the given class; the constructor adds it
\* to the block
NewWire(blk, kind, bitwidth, name, val) ==
    [blk |-> [blk EXCEPT !.w = Append(@, Wire(name, kind, bitwidth, val))],
     id  |-> Len(blk.w) + 1]

tmp_prefix == <<"t","m","p">>
const_prefix == <<"c","o","n","s","t">>

\* construction of an anonymous wire
TmpWire(blk, bitwidth) ==
    LET r == NewWire(blk, "WireVector", bitwidth, tmp_prefix \o Str(blk.t), 0)
    IN  [blk |-> [r.blk EXCEPT !.t = @ + 1], id |-> r.id]

\* Const(val, bitwidth=...)
Const(blk, val, bitwidth) ==
    LET r == NewWire(blk, "Const", bitwidth, const_prefix \o Str(blk.t), val)
    IN  [blk |-> [r.blk EXCEPT !.t = @ + 1], id |-> r.id]

add_net(blk, net) == [blk EXCEPT !.l = Append(@, net)]

\* dest <<= src
ilshift(blk, dest, src) == add_net(blk, LogicNet("w", <<>>, <<src>>, <<dest>>))

\* register.next <<= src
next_ilshift(blk, reg, src) == add_net(blk, LogicNet("r", <<>>, <<src>>, <<reg>>))

\* ~a : a new wire driven by a '~' net
Invert(blk, a) ==
    LET t == TmpWire(blk, blk.w[a].bitwidth)
    IN  [blk |-> add_net(t.blk, LogicNet("~", <<>>, <<a>>, <<t.id>>)), id |-> t.id]

\* a & b, a | b, a ^ b : a new wire driven by a net of that operator
BinOp(blk, op, a, b) ==
    LET bw == IF blk.w[a].bitwidth >= blk.w[b].bitwidth
              THEN blk.w[a].bitwidth ELSE blk.w[b].bitwidth
        t  == TmpWire(blk, bw)
    IN  [blk |-> add_net(t.blk, LogicNet(op, <<>>, <<a, b>>, <<t.id>>)), id |-> t.id]

\* a[i] : a new 1-bit wire driven by an 's' net selecting bit i
Select(blk, a, i) ==
    LET t == TmpWire(blk, 1)
    IN  [blk |-> add_net(t.blk, LogicNet("s", <<i>>, <<a>>, <<t.id>>)), id |-> t.id]

RECURSIVE SumWidth(_, _)
SumWidth(blk, ids) ==
    IF ids = <<>> THEN 0 ELSE blk.w[Head(ids)].bitwidth + SumWidth(blk, Tail(ids))

\* concat(*args) : a new wire driven by a 'c' net with the arguments in the
\* order given, the first argument in the most significant position
concat(blk, ids) ==
    LET t == TmpWire(blk, SumWidth(blk, ids))
    IN  [blk |-> add_net(t.blk, LogicNet("c", <<>>, ids, <<t.id>>)), id |-> t.id]

----------------------------------------------------------------------------
(* input_from_blif *)

n_clk == <<"c","l","k">>

\* twire(x): find or make the wire named x
twire(blk, x) ==
    LET s == get_wirevector_by_name(blk, x)
    IN  IF s = 0 THEN NewWire(blk, "WireVector", 1, x, 0)
        ELSE [blk |-> blk, id |-> s]

\* re.sub(r'\[([0-9]+)\]$', '', x)
StripIndex(x) ==
    LET n == Len(x)
        IsStart(p) == x[p] = "[" /\ \A j \in (p + 1)..(n - 1) : x[j] \in Digits
    IN  IF n >= 3 /\ x[n] = "]" /\ \E p \in 1..(n - 2) : IsStart(p)
        THEN SubSeq(x, 1, (CHOOSE p \in 1..(n - 2) : IsStart(p)) - 1)
        ELSE x

start_names(list) == [i \in 1..Len(list) |-> StripIndex(list[i])]

\* collections.Counter(names): the keys in order of first occurrence, and the counts
RECURSIVE CounterKeys(_)
CounterKeys(names) ==
    IF names = <<>> THEN <<>>
    ELSE LET front == SubSeq(names, 1, Len(names) - 1)
             last  == names[Len(names)]
         IN  IF \E i \in 1..Len(front) : front[i] = last
             THEN CounterKeys(front)
             ELSE Append(CounterKeys(front), last)

CounterCount(names, n) == Cardinality({i \in 1..Len(names) : names[i] = n})

\* input_name + '[' + str(i) + ']'
BitName(base, i) == base \o <<"[">> \o Str(i) \o <<"]">>

\* extract_inputs, lines 114-117: for i in range(bitwidth)
RECURSIVE InputBitLoop(_, _, _, _, _)
InputBitLoop(blk, wire_in, input_name, i, bitwidth) ==
    IF i >= bitwidth THEN blk
    ELSE LET bit_wire == NewWire(blk, "WireVector", 1, BitName(input_name, i), 0)
             sel      == Select(bit_wire.blk, wire_in, i)
         IN  InputBitLoop(ilshift(sel.blk, bit_wire.id, sel.id),
                          wire_in, input_name, i + 1, bitwidth)

\* extract_inputs, lines 106-117: the loop over name_counts; st = [blk, clk_set]
RECURSIVE InputLoop(_, _, _, _)
InputLoop(st, keys, names, merge) ==
    IF keys = <<>> THEN st
    ELSE LET input_name == Head(keys)
             bitwidth   == CounterCount(names, input_name)
             st1 == IF input_name = n_clk
                    THEN [st EXCEPT !.clk_set = @ \cup {input_name}]
                    ELSE IF ~merge \/ bitwidth = 1
                    THEN [st EXCEPT !.blk = NewWire(st.blk, "Input", 1, input_name, 0).blk]
                    ELSE LET wire_in == NewWire(st.blk, "Input", bitwidth, input_name, 0)
                         IN  [st EXCEPT !.blk = InputBitLoop(wire_in.blk, wire_in.id,
                                                             input_name, 0, bitwidth)]
         IN  InputLoop(st1, Tail(keys), names, merge)

extract_inputs(blk, clks, input_list, merge) ==
    LET names == start_names(input_list)
    IN  InputLoop([blk |-> blk, clk_set |-> clks], CounterKeys(names), names, merge)

\* extract_outputs, lines 129-132: builds bit_list
RECURSIVE OutputBitLoop(_, _, _, _, _)
OutputBitLoop(blk, bit_list, output_name, i, bitwidth) ==
    IF i >= bitwidth THEN [blk |-> blk, bit_list |-> bit_list]
    ELSE LET bit_wire == NewWire(blk, "WireVector", 1, BitName(output_name, i), 0)
         IN  OutputBitLoop(bit_wire.blk, Append(bit_list, bit_wire.id),
                           output_name, i + 1, bitwidth)

RECURSIVE OutputLoop(_, _, _, _)
OutputLoop(blk, keys, names, merge) ==
    IF keys = <<>> THEN blk
    ELSE LET output_name == Head(keys)
             bitwidth    == CounterCount(names, output_name)
             blk1 == IF ~merge \/ bitwidth = 1
                     THEN NewWire(blk, "Output", 1, output_name, 0).blk
                     ELSE LET wire_out == NewWire(blk, "Output", bitwidth, output_name, 0)
                              bits == OutputBitLoop(wire_out.blk, <<>>, output_name,
                                                    0, bitwidth)
                              cat  == concat(bits.blk, bits.bit_list)
                          IN  ilshift(cat.blk, wire_out.id, cat.id)
         IN  OutputLoop(blk1, Tail(keys), names, merge)

extract_outputs(blk, output_list, merge) ==
    LET names == start_names(output_list)
    IN  OutputLoop(blk, CounterKeys(names), names, merge)

\* netio[i], command indices counted from 0 as in the source
At(list, i) == list[i + 1]

\* the cover_list of each recognized cover, as cover_list.asList() gives it
cover_false  == <<>>
cover_true   == << <<"1">> >>
cover_wire   == << <<"1">>, <<"1">> >>
cover_not    == << <<"0">>, <<"1">> >>
cover_and    == << <<"1","1">>, <<"1">> >>
cover_nor    == << <<"0","0">>, <<"1">> >>
cover_or     == << <<"1","-">>, <<"1">>, <<"-","1">>, <<"1">> >>
cover_xor    == << <<"1","0">>, <<"1">>, <<"0","1">>, <<"1">> >>
cover_mux    == << <<"1","-","0">>, <<"1">>, <<"-","1","1">>, <<"1">> >>
cover_muxnor == << <<"-","0","0">>, <<"1">>, <<"0","-","0">>, <<"1">> >>

\* The right-hand sides are evaluated as Python evaluates them, operand by
\* operand from left to right: e is the block together with the wires
\* obtained so far, the output wire first.
Start(blk) == [blk |-> blk, s |-> <<>>]

Push(e, r) == [blk |-> r.blk, s |-> Append(e.s, r.id)]

\* twire(x)
PushWire(e, x) == Push(e, twire(e.blk, x))

\* Const(val, bitwidth=1, block=block)
PushConst(e, val) == Push(e, Const(e.blk, val, 1))

\* ~ applied to the wire obtained last
PushInvert(e) ==
    Push([e EXCEPT !.s = SubSeq(@, 1, Len(@) - 1)], Invert(e.blk, e.s[Len(e.s)]))

\* a binary operator applied to the two wires obtained last
PushBinOp(e, op) ==
    Push([e EXCEPT !.s = SubSeq(@, 1, Len(@) - 2)],
         BinOp(e.blk, op, e.s[Len(e.s) - 1], e.s[Len(e.s)]))

\* output_wire <<= value
Assign(e) == ilshift(e.blk, e.s[1], e.s[2])

\* output_wire = twire(netio[2]); output_wire <<= twire(netio[0]) op twire(netio[1])
CoverBinary(blk, netio, op) ==
    Assign(PushBinOp(PushWire(PushWire(PushWire(Start(blk),
        At(netio, 2)), At(netio, 0)), At(netio, 1)), op))

\* lines 170-172: output_wire <<= ~ (twire(netio[0]) | twire(netio[1]))
CoverNor(blk, netio) ==
    Assign(PushInvert(PushBinOp(PushWire(PushWire(PushWire(Start(blk),
        At(netio, 2)), At(netio, 0)), At(netio, 1)), "|")))

\* the multiplexer with its two data operands exchanged
CoverMux_Exchanged(blk, netio) ==
    Assign(PushBinOp(PushBinOp(PushWire(PushWire(
           PushBinOp(PushInvert(PushWire(PushWire(PushWire(Start(blk),
               At(netio, 3)), At(netio, 1)), At(netio, 2))), "&"),
           At(netio, 0)), At(netio, 2)), "&"), "|"))

\* lines 179-182: (twire(netio[0]) & ~ twire(netio[2])) | (twire(netio[1]) & twire(netio[2]))
CoverMux(blk, netio) ==
    Assign(PushBinOp(PushBinOp(PushWire(PushWire(
           PushBinOp(PushInvert(PushWire(PushWire(PushWire(Start(blk),
               At(netio, 3)), At(netio, 0)), At(netio, 2))), "&"),
           At(netio, 1)), At(netio, 2)), "&"), "|"))

\* lines 183-186: (~twire(netio[1]) & ~twire(netio[2])) | (~twire(netio[0]) & ~twire(netio[2]))
CoverMuxNor(blk, netio) ==
    Assign(PushBinOp(PushBinOp(PushInvert(PushWire(PushInvert(PushWire(
           PushBinOp(PushInvert(PushWire(PushInvert(PushWire(PushWire(Start(blk),
               At(netio, 3)), At(netio, 1))), At(netio, 2))), "&"),
           At(netio, 0))), At(netio, 2))), "&"), "|"))

\* lines 149-154: output_wire = twire(netio[0]); output_wire <<= Const(val, bitwidth=1)
CoverConst(blk, netio, val) ==
    Assign(PushConst(PushWire(Start(blk), At(netio, 0)), val))

\* lines 162-163: output_wire = twire(netio[1]); output_wire <<= twire(netio[0])
CoverWire(blk, netio) ==
    Assign(PushWire(PushWire(Start(blk), At(netio, 1)), At(netio, 0)))

\* lines 165-166: output_wire = twire(netio[1]); output_wire <<= ~ twire(netio[0])
CoverNot(blk, netio) ==
    Assign(PushInvert(PushWire(PushWire(Start(blk), At(netio, 1)), At(netio, 0))))

\* extract_cover; the result is the new block, the new clk_set and whether
\* PyrtlError was raised
extract_cover(blk, clks, command) ==
    LET netio == command.namesignal_list
        cl    == command.cover_list
        ok(b) == [blk |-> b, clk_set |-> clks, err |-> FALSE]
    IN  IF Len(cl) = 0        THEN ok(CoverConst(blk, netio, 0))
        ELSE IF cl = cover_true THEN ok(CoverConst(blk, netio, 1))
        ELSE IF cl = cover_wire
        THEN IF At(netio, 1) \in clks
             THEN [blk |-> blk, clk_set |-> clks \cup {At(netio, 0)}, err |-> FALSE]
             ELSE IF At(netio, 0) \in clks
             THEN [blk |-> blk, clk_set |-> clks \cup {At(netio, 1)}, err |-> FALSE]
             ELSE ok(CoverWire(blk, netio))
        ELSE IF cl = cover_not    THEN ok(CoverNot(blk, netio))
        ELSE IF cl = cover_and    THEN ok(CoverBinary(blk, netio, "&"))
        ELSE IF cl = cover_nor    THEN ok(CoverNor(blk, netio))
        ELSE IF cl = cover_or     THEN ok(CoverBinary(blk, netio, "|"))
        ELSE IF cl = cover_xor    THEN ok(CoverBinary(blk, netio, "^"))
        ELSE IF cl = cover_mux    THEN ok(CoverMux(blk, netio))
        ELSE IF cl = cover_muxnor THEN ok(CoverMuxNor(blk, netio))
        ELSE [blk |-> blk, clk_set |-> clks, err |-> TRUE]

reg_suffix == <<"_","r","e","g">>

\* flop.next <<= twire(command['D']), for the pair <<flop, D>> of e
AssignNext(e) == [e EXCEPT !.blk = next_ilshift(e.blk, e.s[1], e.s[2])]

\* flop_output = twire(command['Q']); flop_output <<= flop, for <<flop, D, Q>>
AssignOutput(e) == ilshift(e.blk, e.s[3], e.s[1])

\* a flip-flop that also makes a signal for its clock pin
extract_flop_ClockWire(blk, ffclks, command) ==
    [blk |-> AssignOutput(PushWire(AssignNext(PushWire(
                 Push(Start(twire(blk, command.C).blk),
                      NewWire(twire(blk, command.C).blk, "Register", 1, command.Q \o reg_suffix, 0)),
                 command.D)), command.Q)),
     ff_clk_set |-> ffclks \cup {command.C}]

\* extract_flop; the result is the new block and the new ff_clk_set
extract_flop(blk, ffclks, command) ==
    [blk |-> AssignOutput(PushWire(AssignNext(PushWire(
                 Push(Start(blk), NewWire(blk, "Register", 1, command.Q \o reg_suffix, 0)),
                 command.D)), command.Q)),
     ff_clk_set |-> ffclks \cup {command.C}]

----------------------------------------------------------------------------
(* The BLIF models that are imported *)

NameDef(names, cover) ==
    [type |-> "name_def", namesignal_list |-> names, cover_list |-> cover,
     C |-> <<>>, R |-> <<>>, D |-> <<>>, Q |-> <<>>]

\* .subckt $_DFF_PN0_ C=c R=r D=d Q=q
Dffas(c, r, d, q) ==
    [type |-> "dffas_def", namesignal_list |-> <<>>, cover_list |-> <<>>,
     C |-> c, R |-> r, D |-> d, Q |-> q]

\* .latch d q re c
Dffs(d, q, c) ==
    [type |-> "dffs_def", namesignal_list |-> <<>>, cover_list |-> <<>>,
     C |-> c, R |-> <<>>, D |-> d, Q |-> q]

Model(inputs, outputs, commands) ==
    [input_list |-> inputs, output_list |-> outputs, command_list |-> commands]

n_a == <<"a">>
n_b == <<"b">>
n_c == <<"c">>
n_d == <<"d">>
n_o == <<"o">>
n_q == <<"q">>
n_r == <<"r">>
n_x == <<"x">>
n_y == <<"y">>
n_z == <<"z">>
n_reg == <<"r","e","g">>
n_a_dot_b == <<"a",".","b">>
n_verout_tmp_0 == verout_prefix \o <<"0">>

\* the non-empty sequences over S of length at most n
SeqsUpTo(S, n) == UNION {[1..k -> S] : k \in 1..n}

\* the non-empty sequences of distinct elements of S
Arrangements(S) ==
    {s \in SeqsUpTo(S, Cardinality(S)) : \A i, j \in 1..Len(s) : i # j => s[i] # s[j]}

\* largest bit index of a declared port name
MaxIdx == 2

BitNames(base) == {BitName(base, i) : i \in 0..MaxIdx}

\* a cover that extract_cover does not recognize: 10 1
cover_unknown == << <<"1","0">>, <<"1">> >>

GateCmds ==
    { NameDef(<<n_z>>, cover_false),
      NameDef(<<n_z>>, cover_true),
      NameDef(<<n_a, n_z>>, cover_wire),
      NameDef(<<n_a, n_z>>, cover_not),
      NameDef(<<n_a, n_b, n_z>>, cover_and),
      NameDef(<<n_x, n_y, n_z>>, cover_and),
      NameDef(<<n_a, n_b, n_z>>, cover_nor),
      NameDef(<<n_a, n_b, n_z>>, cover_or),
      NameDef(<<n_a, n_b, n_z>>, cover_xor),
      NameDef(<<n_a, n_b, n_c, n_z>>, cover_mux),
      NameDef(<<n_a, n_b, n_c, n_z>>, cover_muxnor),
      NameDef(<<n_a, n_b, n_z>>, cover_unknown),
      Dffs(n_a, n_q, n_clk) }

GateModels ==
    {Model(<<n_a, n_b, n_c>>, <<n_z>>, cmds) : cmds \in SeqsUpTo(GateCmds, MaxCmds)}

PortCmds ==
    { NameDef(<<BitName(n_a, 0), BitName(n_a, 1), BitName(n_o, 0)>>, cover_and),
      NameDef(<<BitName(n_a, 1), BitName(n_o, 1)>>, cover_not) }

PortModels ==
    {Model(ins, <<BitName(n_o, 0), BitName(n_o, 1)>>, <<cmd>>) :
        ins \in Arrangements(BitNames(n_a)), cmd \in PortCmds}
    \cup
    {Model(<<BitName(n_a, 0), BitName(n_a, 1)>>, outs, <<cmd>>) :
        outs \in Arrangements(BitNames(n_o)), cmd \in PortCmds}

ClkCmds ==
    { NameDef(<<n_clk, n_x>>, cover_wire),
      NameDef(<<n_y, n_x>>, cover_wire),
      NameDef(<<n_x, n_y>>, cover_wire),
      NameDef(<<n_x, n_z>>, cover_not),
      NameDef(<<n_clk, n_a, n_z>>, cover_and),
      Dffs(n_a, n_z, n_x) }

ClkModels ==
    {Model(<<n_clk, n_a>>, outs, cmds) :
        outs \in {<<n_z>>, <<n_x>>}, cmds \in SeqsUpTo(ClkCmds, MaxCmds)}

FlopCmds ==
    { Dffs(n_d, n_q, n_clk),
      Dffas(n_clk, n_r, n_d, n_q),
      Dffs(n_d, n_x, n_clk),
      Dffas(n_clk, n_r, n_q, n_y) }

FlopModels ==
    {Model(<<n_clk, n_d, n_r>>, <<n_q>>, cmds) : cmds \in SeqsUpTo(FlopCmds, MaxCmds)}

n_wire == <<"w","i","r","e">>

IdentModels ==
    {Model(ins, outs, <<NameDef(<<ins[1], outs[1]>>, cover_not)>>) :
        ins  \in {<<n_reg>>, <<n_a_dot_b>>, <<n_a_dot_b, n_reg>>,
                  <<n_a_dot_b, n_verout_tmp_0>>, <<n_verout_tmp_0, n_reg>>},
        outs \in {<<n_z>>, <<n_wire>>}}

\* models in which a port name or a register name occurs twice
SharedNameModels ==
    {Model(<<n_a, n_b>>, <<n_a>>, <<NameDef(<<n_b, n_a>>, cover_not)>>),
     Model(<<n_clk, n_d>>, <<n_q \o reg_suffix>>, <<Dffs(n_d, n_q, n_clk)>>)}

\* the models whose import is explored
Models ==
    GateModels \cup PortModels \cup ClkModels \cup FlopModels \cup IdentModels
    \cup SharedNameModels

\* the models that are imported and then exported
ExportModels ==
    {Model(<<n_a, n_b, n_c>>, <<n_z>>, <<cmd>>) : cmd \in GateCmds}
    \cup {Model(<<BitName(n_a, 0), BitName(n_a, 1)>>, <<BitName(n_o, 0), BitName(n_o, 1)>>,
                <<cmd>>) : cmd \in PortCmds}
    \cup ClkModels \cup FlopModels \cup IdentModels

----------------------------------------------------------------------------
(* input_from_blif as a state machine: lines 202-205 *)

\* the keyword of the section of a command
Keyword(command) ==
    CASE command.type = "name_def"  -> ".names"
      [] command.type = "dffas_def" -> ".subckt"
      [] command.type = "dffs_def"  -> ".latch"

\* the sections of the text that parses to the model
Sections(m) ==
    <<".model", ".inputs", ".outputs">>
    \o [k \in 1..Len(m.command_list) |-> Keyword(m.command_list[k])]
    \o <<".end">>

TheBlock == Block(wirevector_set, logic, next_tmp)

SetBlock(blk) ==
    /\ wirevector_set' = blk.w
    /\ logic' = blk.l
    /\ next_tmp' = blk.t

Unsanitized == NameSanitizer(<<>>)

InitWith(models) ==
    /\ model \in models
    /\ blif = Sections(model)
    /\ merge_io_vectors \in BOOLEAN
    /\ pc = "inputs"
    /\ cmd_i = 1
    /\ wirevector_set = <<>>
    /\ logic = <<>>
    /\ next_tmp = 0
    /\ clk_set = {}
    /\ ff_clk_set = {}
    /\ mark = [w |-> 0, l |-> 0]
    /\ internal_names = Unsanitized
    /\ file = <<>>
    /\ ver_name = Unsanitized
    /\ tb_file = <<>>

Init == InitWith(ExportModels)

InitImport == InitWith(Models)

ExtractInputs ==
    /\ pc = "inputs"
    /\ LET st == extract_inputs(TheBlock, clk_set, model.input_list, merge_io_vectors)
       IN  /\ SetBlock(st.blk)
           /\ clk_set' = st.clk_set
    /\ pc' = "outputs"
    /\ UNCHANGED <<blif, model, merge_io_vectors, cmd_i, ff_clk_set, mark,
                   internal_names, file, ver_name, tb_file>>

ExtractOutputs ==
    /\ pc = "outputs"
    /\ SetBlock(extract_outputs(TheBlock, model.output_list, merge_io_vectors))
    /\ pc' = "commands"
    /\ UNCHANGED <<blif, model, merge_io_vectors, cmd_i, clk_set, ff_clk_set, mark,
                   internal_names, file, ver_name, tb_file>>

\* the position after the command cmd_i of extract_commands
AfterCommand == IF cmd_i = Len(model.command_list) THEN "imported" ELSE "commands"

\* extract_commands, a command that is a cover
ExtractCover ==
    /\ pc = "commands"
    /\ model.command_list[cmd_i].type = "name_def"
    /\ LET r == extract_cover(TheBlock, clk_set, model.command_list[cmd_i])
       IN  /\ SetBlock(r.blk)
           /\ clk_set' = r.clk_set
           /\ pc' = IF r.err THEN "error" ELSE AfterCommand
    /\ cmd_i' = cmd_i + 1
    /\ mark' = [w |-> Len(wirevector_set), l |-> Len(logic)]
    /\ UNCHANGED <<blif, model, merge_io_vectors, ff_clk_set,
                   internal_names, file, ver_name, tb_file>>

\* extract_commands, a command that is a flip-flop
ExtractFlop ==
    /\ pc = "commands"
    /\ model.command_list[cmd_i].type \in {"dffas_def", "dffs_def"}
    /\ LET r == extract_flop(TheBlock, ff_clk_set, model.command_list[cmd_i])
       IN  /\ SetBlock(r.blk)
           /\ ff_clk_set' = r.ff_clk_set
    /\ pc' = AfterCommand
    /\ cmd_i' = cmd_i + 1
    /\ mark' = [w |-> Len(wirevector_set), l |-> Len(logic)]
    /\ UNCHANGED <<blif, model, merge_io_vectors, clk_set,
                   internal_names, file, ver_name, tb_file>>

----------------------------------------------------------------------------
(* OutputToVerilog *)

\* a line of emitted text: its kind and the values formatted into it
Line(kind, dest, decl, op, args, param) ==
    [kind |-> kind, dest |-> dest, decl |-> decl, op |-> op, args |-> args, param |-> param]

Plain(kind) == Line(kind, <<>>, <<>>, "", <<>>, <<>>)

ident_clk == <<"c","l","k">>

RECURSIVE Flatten(_)
Flatten(seqs) == IF seqs = <<>> THEN <<>> ELSE Head(seqs) \o Flatten(Tail(seqs))

\* the positions, in order, at which the sequence of flags is TRUE
RECURSIVE SelectIds(_, _)
SelectIds(flags, i) ==
    IF i > Len(flags) THEN <<>>
    ELSE IF flags[i] THEN <<i>> \o SelectIds(flags, i + 1)
    ELSE SelectIds(flags, i + 1)

\* block.wirevector_subset(cls)
wirevector_subset(ws, kinds) == SelectIds([k \in 1..Len(ws) |-> ws[k].kind \in kinds], 1)

\* block.logic_subset(ops)
logic_subset(nets, ops) == SelectIds([k \in 1..Len(nets) |-> nets[k].op \in ops], 1)

\* _verilog_vector_decl(w) for a wire of the given length
verilog_vector_decl(len) ==
    IF len = 1 THEN <<>> ELSE <<"[">> \o Str(len - 1) \o <<":","0","]">>

\* _verilog_vector_pow_decl(w) for a wire of the given length
verilog_vector_pow_decl(len) ==
    IF len = 1 THEN <<>> ELSE <<"[">> \o Str(Pow2(len) - 1) \o <<":","0","]">>

\* OutputToVerilog._varname for the wire at position id
varname(san, ws, id) == san.val_map[ws[id].name]

\* the memory of a memory net: op_param is <<memid, 1 if the memory has
\* initialdata else 0, the value read at address 0, at address 1, ...>>
MemId(net) == net.op_param[1]
HasInitialData(net) == net.op_param[2] = 1
get_read_data(net, i) == net.op_param[3 + i]

\* len(w) for a LogicNet w: a tuple of op, op_param, args, dests
LogicNetLen == 4

\* lines 545-552: one net for each memory, the first net of that memory
RECURSIVE MemoriesFrom(_, _, _)
MemoriesFrom(nets, i, seen) ==
    IF i > Len(nets) THEN <<>>
    ELSE IF nets[i].op \in {"m", "@"} /\ MemId(nets[i]) \notin seen
    THEN <<nets[i]>> \o MemoriesFrom(nets, i + 1, seen \cup {MemId(nets[i])})
    ELSE MemoriesFrom(nets, i + 1, seen)

\* _to_verilog_comment
to_verilog_comment == <<Plain("comment"), Plain("comment"), Plain("comment"), Plain("blank")>>

\* lines 591-597: the initial block of the memory of net w
InitialBlock(ws, w) ==
    <<Plain("initial_begin")>>
    \o [i \in 1..Pow2(ws[w.args[1]].bitwidth) |->
           Line("initial_entry", <<>>, <<>>, "", <<>>,
                <<MemId(w), i - 1, LogicNetLen, get_read_data(w, i - 1)>>)]
    \o <<Plain("initial_end"), Plain("blank")>>

\* _to_verilog_header
to_verilog_header(san, ws, nets) ==
    LET io        == wirevector_subset(ws, {"Input", "Output"})
        io_list   == [k \in 1..Len(io) |-> varname(san, ws, io[k])] \o <<ident_clk>>
        inputs    == wirevector_subset(ws, {"Input"})
        outputs   == wirevector_subset(ws, {"Output"})
        registers == wirevector_subset(ws, {"Register"})
        wires     == wirevector_subset(ws, {"WireVector", "Const"})
        wire_regs == {nets[k].dests[1] : k \in {j \in 1..Len(nets) : nets[j].op = "m"}}
        memories  == MemoriesFrom(nets, 1, {})
        Decl(kind, id) ==
            Line(kind, varname(san, ws, id), verilog_vector_decl(ws[id].bitwidth), "", <<>>, <<>>)
        MemDecl(w) ==
            Line("memory", <<>>,
                 verilog_vector_decl(IF w.op = "m" THEN ws[w.dests[1]].bitwidth
                                     ELSE ws[w.args[2]].bitwidth),
                 "", <<verilog_vector_pow_decl(ws[w.args[1]].bitwidth)>>, <<MemId(w)>>)
        mems_with_initials == SelectSeq(memories, HasInitialData)
    IN  <<Line("module", <<>>, <<>>, "", io_list, <<>>)>>
        \o [k \in 1..Len(inputs) |-> Decl("input", inputs[k])]
        \o <<Plain("input_clk")>>
        \o [k \in 1..Len(outputs) |-> Decl("output", outputs[k])]
        \o <<Plain("blank")>>
        \o [k \in 1..Len(registers) |-> Decl("reg", registers[k])]
        \o [k \in 1..Len(wires) |->
               Decl(IF wires[k] \in wire_regs THEN "reg" ELSE "wire", wires[k])]
        \o <<Plain("blank")>>
        \o [k \in 1..Len(memories) |-> MemDecl(memories[k])]
        \o <<Plain("blank")>>
        \o Flatten([k \in 1..Len(mems_with_initials) |-> InitialBlock(ws, mems_with_initials[k])])

UnaryOps == {"w", "~"}
BinaryOps == {"&", "|", "^", "+", "-", "*", "<", ">"}

\* lines 626-629: the bit selections of an 's' net, reversed
SelectList(san, ws, net) ==
    LET n == Len(net.op_param)
        a == net.args[1]
    IN  [k \in 1..n |->
            IF ws[a].bitwidth > 1
            THEN varname(san, ws, a) \o <<"[">> \o Str(net.op_param[n + 1 - k]) \o <<"]">>
            ELSE varname(san, ws, a)]

\* the select net written in the order of its arguments
CombinationalNet_Unswapped(san, ws, net) ==
    LET v(id) == varname(san, ws, id)
        AssignLine(op, args) == <<Line("assign", v(net.dests[1]), <<>>, op, args, <<>>)>>
    IN  IF net.op \in UnaryOps
        THEN AssignLine(IF net.op = "w" THEN "" ELSE net.op, <<v(net.args[1])>>)
        ELSE IF net.op \in BinaryOps
        THEN AssignLine(net.op, <<v(net.args[1]), v(net.args[2])>>)
        ELSE IF net.op = "="
        THEN AssignLine("==", <<v(net.args[1]), v(net.args[2])>>)
        ELSE IF net.op = "x"
        THEN AssignLine("?:", <<v(net.args[1]), v(net.args[2]), v(net.args[3])>>)
        ELSE IF net.op = "c"
        THEN AssignLine("{}", [k \in 1..Len(net.args) |-> v(net.args[k])])
        ELSE IF net.op = "s"
        THEN AssignLine("{}", SelectList(san, ws, net))
        ELSE IF net.op = "m"
        THEN <<Plain("always"), Plain("begin"),
               Line("nonblocking", v(net.dests[1]), <<>>, "mem", <<v(net.args[1])>>, <<MemId(net)>>),
               Plain("end")>>
        ELSE <<>>

\* the binary operators with their operands exchanged
CombinationalNet_Exchanged(san, ws, net) ==
    LET v(id) == varname(san, ws, id)
        AssignLine(op, args) == <<Line("assign", v(net.dests[1]), <<>>, op, args, <<>>)>>
    IN  IF net.op \in UnaryOps
        THEN AssignLine(IF net.op = "w" THEN "" ELSE net.op, <<v(net.args[1])>>)
        ELSE IF net.op \in BinaryOps
        THEN AssignLine(net.op, <<v(net.args[2]), v(net.args[1])>>)
        ELSE IF net.op = "="
        THEN AssignLine("==", <<v(net.args[1]), v(net.args[2])>>)
        ELSE IF net.op = "x"
        THEN AssignLine("?:", <<v(net.args[1]), v(net.args[3]), v(net.args[2])>>)
        ELSE IF net.op = "c"
        THEN AssignLine("{}", [k \in 1..Len(net.args) |-> v(net.args[k])])
        ELSE IF net.op = "s"
        THEN AssignLine("{}", SelectList(san, ws, net))
        ELSE IF net.op = "m"
        THEN <<Plain("always"), Plain("begin"),
               Line("nonblocking", v(net.dests[1]), <<>>, "mem", <<v(net.args[1])>>, <<MemId(net)>>),
               Plain("end")>>
        ELSE <<>>

\* lines 603-643: the text written for one net; <<>> for 'r' and '@'
CombinationalNet(san, ws, net) ==
    LET v(id) == varname(san, ws, id)
        AssignLine(op, args) == <<Line("assign", v(net.dests[1]), <<>>, op, args, <<>>)>>
    IN  IF net.op \in UnaryOps
        THEN AssignLine(IF net.op = "w" THEN "" ELSE net.op, <<v(net.args[1])>>)
        ELSE IF net.op \in BinaryOps
        THEN AssignLine(net.op, <<v(net.args[1]), v(net.args[2])>>)
        ELSE IF net.op = "="
        THEN AssignLine("==", <<v(net.args[1]), v(net.args[2])>>)
        ELSE IF net.op = "x"
        THEN AssignLine("?:", <<v(net.args[1]), v(net.args[3]), v(net.args[2])>>)
        ELSE IF net.op = "c"
        THEN AssignLine("{}", [k \in 1..Len(net.args) |-> v(net.args[k])])
        ELSE IF net.op = "s"
        THEN AssignLine("{}", SelectList(san, ws, net))
        ELSE IF net.op = "m"
        THEN <<Plain("always"), Plain("begin"),
               Line("nonblocking", v(net.dests[1]), <<>>, "mem", <<v(net.args[1])>>, <<MemId(net)>>),
               Plain("end")>>
        ELSE <<>>

SupportedOps == UnaryOps \cup BinaryOps \cup {"=", "x", "c", "s", "r", "m", "@"}

\* a combinational stage that writes the constants after the nets and
\* visits the nets again
to_verilog_combinational_Again(san, ws, nets) ==
    LET consts == wirevector_subset(ws, {"Const"})
    IN  Flatten([k \in 1..Len(nets) |-> CombinationalNet(san, ws, nets[k])])
        \o [k \in 1..Len(consts) |->
            Line("assign_const", varname(san, ws, consts[k]), <<>>, "", <<>>,
                 <<ws[consts[k]].val>>)]
        \o Flatten([k \in 1..Len(nets) |-> CombinationalNet(san, ws, nets[k])])
        \o <<Plain("blank")>>

\* _to_verilog_combinational
to_verilog_combinational(san, ws, nets) ==
    LET consts == wirevector_subset(ws, {"Const"})
    IN  [k \in 1..Len(consts) |->
            Line("assign_const", varname(san, ws, consts[k]), <<>>, "", <<>>,
                 <<ws[consts[k]].val>>)]
        \o Flatten([k \in 1..Len(nets) |-> CombinationalNet(san, ws, nets[k])])
        \o <<Plain("blank")>>

\* the memory write with its operands in the order of the net's arguments
SequentialNet_ArgumentOrder(san, ws, net) ==
    LET v(id) == varname(san, ws, id)
    IN  IF net.op = "r"
        THEN <<Line("nonblocking", v(net.dests[1]), <<>>, "", <<v(net.args[1])>>, <<>>)>>
        ELSE IF net.op = "@"
        THEN <<Line("memwrite", <<>>, <<>>, "",
                    <<v(net.args[1]), v(net.args[2]), v(net.args[3])>>, <<MemId(net)>>)>>
        ELSE <<>>

\* the clocked block with the register and its next value exchanged
SequentialNet_Exchanged(san, ws, net) ==
    LET v(id) == varname(san, ws, id)
    IN  IF net.op = "r"
        THEN <<Line("nonblocking", v(net.args[1]), <<>>, "", <<v(net.dests[1])>>, <<>>)>>
        ELSE IF net.op = "@"
        THEN <<Line("memwrite", <<>>, <<>>, "",
                    <<v(net.args[3]), v(net.args[1]), v(net.args[2])>>, <<MemId(net)>>)>>
        ELSE <<>>

\* lines 649-658: the text written for one net in the clocked block
SequentialNet(san, ws, net) ==
    LET v(id) == varname(san, ws, id)
    IN  IF net.op = "r"
        THEN <<Line("nonblocking", v(net.dests[1]), <<>>, "", <<v(net.args[1])>>, <<>>)>>
        ELSE IF net.op = "@"
        THEN <<Line("memwrite", <<>>, <<>>, "",
                    <<v(net.args[3]), v(net.args[1]), v(net.args[2])>>, <<MemId(net)>>)>>
        ELSE <<>>

\* _to_verilog_sequential
to_verilog_sequential(san, ws, nets) ==
    <<Plain("always"), Plain("begin")>>
    \o Flatten([k \in 1..Len(nets) |-> SequentialNet(san, ws, nets[k])])
    \o <<Plain("end")>>

\* _to_verilog_footer
to_verilog_footer == <<Plain("endmodule"), Plain("blank")>>

\* the names of the wires of the block, in creation order
WireNameSeq(ws) == [i \in 1..Len(ws) |-> ws[i].name]

\* the names of the block that are not valid identifiers
InvalidNames(ws) == {ws[i].name : i \in {j \in 1..Len(ws) : ~is_valid_str(ws[j].name)}}

RECURSIVE SetToSeq(_)
SetToSeq(S) == IF S = {} THEN <<>>
               ELSE LET e == CHOOSE e \in S : TRUE IN <<e>> \o SetToSeq(S \ {e})

\* the orders in which a loop over a set can visit its elements
Orders(S) == {[i \in 1..Cardinality(S) |-> p[SetToSeq(S)[i]]] : p \in Permutations(S)}

\* lines 513-515 and 670-672: a sanitizer with the names of all wires of the
\* block registered; only the order of the names that are not valid matters
Registered(prefix, ws, order) ==
    make_valid_strings(NameSanitizer(prefix),
                       order \o SelectSeq(WireNameSeq(ws), is_valid_str))

\* the order in which the names that are not valid were registered with san
RegistrationOrder(san) ==
    [k \in 1..san.internal_index |->
        CHOOSE n \in DOMAIN san.val_map :
            ~is_valid_str(n) /\ san.val_map[n] = san.internal_prefix \o Str(k - 1)]

\* OutputToVerilog.__init__, lines 511-515
SanitizeNames ==
    /\ pc = "imported"
    /\ \E order \in Orders(InvalidNames(wirevector_set)) :
          internal_names' = Registered(verout_prefix, wirevector_set, order)
    /\ pc' = "comment"
    /\ UNCHANGED <<blif, model, merge_io_vectors, cmd_i, wirevector_set, logic, next_tmp,
                   clk_set, ff_clk_set, mark, file, ver_name, tb_file>>

Emit(to, lines) ==
    /\ file' = file \o lines
    /\ pc' = to
    /\ UNCHANGED <<blif, model, merge_io_vectors, cmd_i, wirevector_set, logic, next_tmp,
                   clk_set, ff_clk_set, mark, internal_names, ver_name, tb_file>>

ToVerilogComment ==
    /\ pc = "comment"
    /\ Emit("header", to_verilog_comment)

ToVerilogHeader ==
    /\ pc = "header"
    /\ Emit("combinational", to_verilog_header(internal_names, wirevector_set, logic))

\* _to_verilog_combinational; PyrtlInternalError for a net it has no rule for
ToVerilogCombinational ==
    /\ pc = "combinational"
    /\ IF \A k \in 1..Len(logic) : logic[k].op \in SupportedOps
       THEN Emit("sequential", to_verilog_combinational(internal_names, wirevector_set, logic))
       ELSE Emit("error", <<>>)

ToVerilogSequential ==
    /\ pc = "sequential"
    /\ Emit("footer", to_verilog_sequential(internal_names, wirevector_set, logic))

ToVerilogFooter ==
    /\ pc = "footer"
    /\ Emit("exported", to_verilog_footer)

----------------------------------------------------------------------------
(* output_verilog_testbench *)

\* the text of output_verilog_testbench for a trace: trace[i][k] is the
\* value of the k-th input in cycle i
verilog_testbench(san, ws, trace) ==
    LET inputs  == wirevector_subset(ws, {"Input"})
        outputs == wirevector_subset(ws, {"Output"})
        io      == wirevector_subset(ws, {"Input", "Output"})
        io_list == [k \in 1..Len(io) |-> varname(san, ws, io[k])] \o <<ident_clk>>
        Decl(kind, id) ==
            Line(kind, varname(san, ws, id), verilog_vector_decl(ws[id].bitwidth), "", <<>>, <<>>)
        Cycle(i) ==
            [k \in 1..Len(inputs) |->
                Line("tb_assign", varname(san, ws, inputs[k]), <<>>, "'d", <<>>,
                     <<ws[inputs[k]].bitwidth, trace[i][k]>>)]
            \o <<Plain("tb_delay")>>
    IN  <<Plain("tb_module"), Plain("tb_reg_clk")>>
        \o [k \in 1..Len(inputs) |-> Decl("tb_reg", inputs[k])]
        \o [k \in 1..Len(outputs) |-> Decl("tb_wire", outputs[k])]
        \o <<Plain("blank")>>
        \o <<Line("tb_instance", <<>>, <<>>, "", io_list, <<>>)>>
        \o <<Plain("tb_always"), Plain("tb_clk_toggle")>>
        \o <<Plain("tb_initial_begin"), Plain("tb_dumpfile"), Plain("tb_dumpvars"),
             Plain("tb_clk_init")>>
        \o Flatten([i \in 1..Len(trace) |-> Cycle(i)])
        \o <<Plain("tb_finish"), Plain("tb_end"), Plain("tb_endmodule")>>

\* output_verilog_testbench on the block, for any trace of TraceLen cycles
OutputVerilogTestbench ==
    /\ pc = "exported"
    /\ LET san == Registered(ver_out_prefix, wirevector_set, RegistrationOrder(internal_names))
           n   == Len(wirevector_subset(wirevector_set, {"Input"}))
       IN  /\ ver_name' = san
           /\ \E trace \in [1..TraceLen -> [1..n -> {0, 1}]] :
                 tb_file' = verilog_testbench(san, wirevector_set, trace)
    /\ pc' = "done"
    /\ UNCHANGED <<blif, model, merge_io_vectors, cmd_i, wirevector_set, logic, next_tmp,
                   clk_set, ff_clk_set, mark, internal_names, file>>

----------------------------------------------------------------------------

Next ==
    \/ ExtractInputs
    \/ ExtractOutputs
    \/ ExtractCover
    \/ ExtractFlop
    \/ SanitizeNames
    \/ ToVerilogComment
    \/ ToVerilogHeader
    \/ ToVerilogCombinational
    \/ ToVerilogSequential
    \/ ToVerilogFooter
    \/ OutputVerilogTestbench

Spec == Init /\ [][Next]_vars

\* input_from_blif alone, on the larger set of models
NextImport ==
    \/ ExtractInputs
    \/ ExtractOutputs
    \/ ExtractCover
    \/ ExtractFlop

SpecImport == InitImport /\ [][NextImport]_vars

----------------------------------------------------------------------------
(* Blocks built with the library, as the memory example builds them *)

MaxDataWidth == 4

MaxAddrWidth == 2

\* MemBlock(bitwidth, addrwidth): a memory without initialdata
MemBlock(id, bitwidth, addrwidth) ==
    [id |-> id, bitwidth |-> bitwidth, addrwidth |-> addrwidth, init |-> 0, data |-> <<>>]

\* RomBlock(bitwidth, addrwidth, data): a memory with initialdata; data[i + 1]
\* is the value read at address i
RomBlock(id, bitwidth, addrwidth, data) ==
    [id |-> id, bitwidth |-> bitwidth, addrwidth |-> addrwidth, init |-> 1, data |-> data]

\* the op_param of the nets of a memory: its id, and the memory itself
MemParam(mem) == <<mem.id, mem.init>> \o mem.data

\* mem[addr] read: a new wire of the data width driven by an 'm' net
MemRead(blk, mem, addr) ==
    LET t == TmpWire(blk, mem.bitwidth)
    IN  [blk |-> add_net(t.blk, LogicNet("m", MemParam(mem), <<addr>>, <<t.id>>)), id |-> t.id]

\* mem[addr] <<= MemBlock.EnabledWrite(data, enable): an '@' net without destination
MemWrite(blk, mem, addr, data, enable) ==
    add_net(blk, LogicNet("@", MemParam(mem), <<addr, data, enable>>, <<>>))

\* mux(select, falsecase, truecase): a new wire driven by an 'x' net
Mux(blk, select, falsecase, truecase) ==
    LET t == TmpWire(blk, blk.w[truecase].bitwidth)
    IN  [blk |-> add_net(t.blk, LogicNet("x", <<>>, <<select, falsecase, truecase>>, <<t.id>>)),
         id |-> t.id]

\* a statement of a program that builds a block; var and args are the
\* program's variables
Stmt(op, var, args, name, bitwidth, mem) ==
    [op |-> op, var |-> var, args |-> args, name |-> name, bitwidth |-> bitwidth, mem |-> mem]

NoMem == MemBlock(0, 0, 0)

Declare(kind, var, name, bitwidth) == Stmt(kind, var, <<>>, name, bitwidth, NoMem)

Compute(op, var, args) == Stmt(op, var, args, <<>>, 0, NoMem)

Port(op, var, args, mem) == Stmt(op, var, args, <<>>, 0, mem)

\* the block and the wires of the program's variables after one statement
Bind(e, var, r) == [blk |-> r.blk, env |-> (var :> r.id) @@ e.env]

Exec(e, st) ==
    CASE st.op \in {"Input", "Output", "Register"} ->
            Bind(e, st.var, NewWire(e.blk, st.op, st.bitwidth, st.name, 0))
      [] st.op = "Const" ->
            Bind(e, st.var, Const(e.blk, 1, st.bitwidth))
      [] st.op = "mux" ->
            Bind(e, st.var, Mux(e.blk, e.env[st.args[1]], e.env[st.args[2]], e.env[st.args[3]]))
      [] st.op = "read" ->
            Bind(e, st.var, MemRead(e.blk, st.mem, e.env[st.args[1]]))
      [] st.op = "write" ->
            [e EXCEPT !.blk = MemWrite(@, st.mem, e.env[st.args[1]], e.env[st.args[2]],
                                       e.env[st.args[3]])]
      [] st.op = "<<=" ->
            [e EXCEPT !.blk = ilshift(@, e.env[st.var], e.env[st.args[1]])]
      [] st.op = "next" ->
            [e EXCEPT !.blk = next_ilshift(@, e.env[st.var], e.env[st.args[1]])]
      [] OTHER ->
            Bind(e, st.var, BinOp(e.blk, st.op, e.env[st.args[1]], e.env[st.args[2]]))

RECURSIVE Run(_, _)
Run(e, prog) == IF prog = <<>> THEN e.blk ELSE Run(Exec(e, Head(prog)), Tail(prog))

\* example7-memory.py part 1 with memories of the given widths
MemoryExample(bitwidth, addrwidth) ==
    LET mem1 == MemBlock(0, bitwidth, addrwidth)
        mem2 == MemBlock(1, bitwidth, addrwidth)
    IN  Run([blk |-> Block(<<>>, <<>>, 0), env |-> <<>>],
            << Declare("Input", "waddr", <<"w","a","d","d","r">>, addrwidth),
               Declare("Register", "count", <<"c","o","u","n","t">>, addrwidth),
               Declare("Input", "wdata", <<"w","d","a","t","a">>, bitwidth),
               Declare("Input", "we", <<"w","e">>, 1),
               Declare("Input", "raddr", <<"r","a","d","d","r">>, addrwidth),
               Declare("Output", "rdata1", <<"r","d","a","t","a","1">>, bitwidth),
               Declare("Output", "rdata2", <<"r","d","a","t","a","2">>, bitwidth),
               Port("read", "t1", <<"raddr">>, mem1),
               Compute("<<=", "rdata1", <<"t1">>),
               Port("read", "t2", <<"raddr">>, mem2),
               Compute("<<=", "rdata2", <<"t2">>),
               Port("write", "", <<"waddr", "wdata", "we">>, mem1),
               Port("write", "", <<"count", "wdata", "we">>, mem2),
               Declare("Const", "one", <<>>, 1),
               Compute("+", "t3", <<"count", "one">>),
               Compute("mux", "t4", <<"we", "count", "t3">>),
               Compute("next", "count", <<"t4">>),
               Declare("Output", "validate", <<"v","a","l","i","d","a","t","e">>, 1),
               Compute("=", "t5", <<"waddr", "count">>),
               Compute("<<=", "validate", <<"t5">>) >>)

\* rom_data_func of the example, 15 - 2 * address, within the data width
rom_data_func(bitwidth, address) == (Pow2(bitwidth + MaxAddrWidth + 1) - 1 - 2 * address) % Pow2(bitwidth)

\* the contents a ROM of these widths may be given
RomData(bitwidth, addrwidth) ==
    { [i \in 1..Pow2(addrwidth) |-> rom_data_func(bitwidth, i - 1)],
      [i \in 1..Pow2(addrwidth) |-> (i - 1) % Pow2(bitwidth)] }

\* example7-memory.py part 2 with ROMs of the given widths and contents
RomExample(bitwidth, addrwidth, data1, data2) ==
    LET rom1 == RomBlock(0, bitwidth, addrwidth, data1)
        rom2 == RomBlock(1, bitwidth, addrwidth, data2)
    IN  Run([blk |-> Block(<<>>, <<>>, 0), env |-> <<>>],
            << Declare("Input", "rom_add_1", <<"r","o","m","_","i","n">>, addrwidth),
               Declare("Input", "rom_add_2", <<"r","o","m","_","i","n","_","2">>, addrwidth),
               Declare("Output", "rom_out_1", <<"r","o","m","_","o","u","t","_","1">>, bitwidth),
               Declare("Output", "rom_out_2", <<"r","o","m","_","o","u","t","_","2">>, bitwidth),
               Declare("Output", "rom_out_3", <<"r","o","m","_","o","u","t","_","3">>, bitwidth),
               Declare("Output", "cmp_out", <<"c","m","p","_","o","u","t">>, 1),
               Port("read", "temp1", <<"rom_add_1">>, rom1),
               Port("read", "temp2", <<"rom_add_1">>, rom2),
               Port("read", "t1", <<"rom_add_2">>, rom2),
               Compute("<<=", "rom_out_3", <<"t1">>),
               Compute("<<=", "rom_out_1", <<"temp1">>),
               Compute("<<=", "rom_out_2", <<"temp2">>),
               Compute("=", "t2", <<"temp1", "temp2">>),
               Compute("<<=", "cmp_out", <<"t2">>) >>)

BuiltBlocks ==
    {MemoryExample(d, a) : d \in 1..MaxDataWidth, a \in 1..MaxAddrWidth}
    \cup UNION {{RomExample(d, a, d1, d2) : d1 \in RomData(d, a), d2 \in RomData(d, a)} :
                   <<d, a>> \in (1..MaxDataWidth) \X (1..MaxAddrWidth)}

InitExport ==
    /\ blif = <<>>
    /\ model = Model(<<>>, <<>>, <<>>)
    /\ merge_io_vectors = TRUE
    /\ pc = "imported"
    /\ cmd_i = 1
    /\ \E blk \in BuiltBlocks :
          /\ wirevector_set = blk.w
          /\ logic = blk.l
          /\ next_tmp = blk.t
    /\ clk_set = {}
    /\ ff_clk_set = {}
    /\ mark = [w |-> 0, l |-> 0]
    /\ internal_names = Unsanitized
    /\ file = <<>>
    /\ ver_name = Unsanitized
    /\ tb_file = <<>>

NextExport ==
    \/ SanitizeNames
    \/ ToVerilogComment
    \/ ToVerilogHeader
    \/ ToVerilogCombinational
    \/ ToVerilogSequential
    \/ ToVerilogFooter

SpecExport == InitExport /\ [][NextExport]_vars
----------------------------------------------------------------------------
(* The parser of input_from_blif, section by section *)

MaxSections == 10

SectionKeywords == {".model", ".inputs", ".outputs", ".names", ".subckt", ".latch", ".end"}

\* command_def = name_def | dffas_def | dffs_def
command_def == {".names", ".subckt", ".latch"}

ParserStates == {"header", "input_list", "output_list", "command_list", "command_more", "model_list"}

\* the grammar of lines 65-93 after one more section: the element expected
\* next, or ParseException
parse_section(state, keyword) ==
    CASE state = "header" ->
            IF keyword = ".model" THEN "input_list" ELSE "ParseException"
      [] state = "input_list" ->
            IF keyword = ".inputs" THEN "output_list" ELSE "ParseException"
      [] state = "output_list" ->
            IF keyword = ".outputs" THEN "command_list" ELSE "ParseException"
      [] state = "command_list" ->
            IF keyword \in command_def THEN "command_more" ELSE "ParseException"
      [] state = "command_more" ->
            IF keyword \in command_def THEN "command_more"
            ELSE IF keyword = ".end" THEN "model_list" ELSE "ParseException"
      [] state = "model_list" ->
            IF keyword = ".model" THEN "input_list" ELSE "ParseException"

\* len(result): the models of the text
ModelCount(text) == Cardinality({k \in 1..Len(text) : text[k] = ".end"})

\* the end of the text: parseAll=True, then assert(len(result) == 1)
parse_all(state, text) ==
    IF state # "model_list" THEN "ParseException"
    ELSE IF ModelCount(text) = 1 THEN "parsed" ELSE "AssertionError"

InitParse ==
    /\ blif = <<>>
    /\ model = Model(<<>>, <<>>, <<>>)
    /\ merge_io_vectors = TRUE
    /\ pc = "header"
    /\ cmd_i = 1
    /\ wirevector_set = <<>>
    /\ logic = <<>>
    /\ next_tmp = 0
    /\ clk_set = {}
    /\ ff_clk_set = {}
    /\ mark = [w |-> 0, l |-> 0]
    /\ internal_names = Unsanitized
    /\ file = <<>>
    /\ ver_name = Unsanitized
    /\ tb_file = <<>>

\* parser.parseString reads the next section of the text
ParseSection ==
    /\ pc \in ParserStates
    /\ Len(blif) < MaxSections
    /\ \E keyword \in SectionKeywords :
          /\ blif' = Append(blif, keyword)
          /\ pc' = parse_section(pc, keyword)
    /\ UNCHANGED <<model, merge_io_vectors, cmd_i, wirevector_set, logic, next_tmp,
                   clk_set, ff_clk_set, mark, internal_names, file, ver_name, tb_file>>

\* parser.parseString reaches the end of the text
ParseAll ==
    /\ pc \in ParserStates
    /\ pc' = parse_all(pc, blif)
    /\ UNCHANGED <<blif, model, merge_io_vectors, cmd_i, wirevector_set, logic, next_tmp,
                   clk_set, ff_clk_set, mark, internal_names, file, ver_name, tb_file>>

NextParse == ParseSection \/ ParseAll

SpecParse == InitParse /\ [][NextParse]_vars
----------------------------------------------------------------------------
(* One sanitizer, names registered in any order *)

SaniNames ==
    {n_a, n_z, n_reg, n_wire, n_a_dot_b, BitName(n_a, 0), n_verout_tmp_0,
     verout_prefix \o <<"1">>, <<"o","u","t","$","1">>, <<"9","x">>}

InitSani ==
    /\ blif = <<>>
    /\ model = Model(<<>>, <<>>, <<>>)
    /\ merge_io_vectors = TRUE
    /\ pc = "sanitizer"
    /\ cmd_i = 1
    /\ wirevector_set = <<>>
    /\ logic = <<>>
    /\ next_tmp = 0
    /\ clk_set = {}
    /\ ff_clk_set = {}
    /\ mark = [w |-> 0, l |-> 0]
    /\ internal_names = NameSanitizer(verout_prefix)
    /\ file = <<>>
    /\ ver_name = Unsanitized
    /\ tb_file = <<>>

\* internal_names.make_valid_string(name) for a name not given before
RegisterName ==
    /\ pc = "sanitizer"
    /\ Cardinality(DOMAIN internal_names.val_map) < MaxNames
    /\ \E n \in SaniNames \ DOMAIN internal_names.val_map :
          internal_names' = make_valid_string(internal_names, n)
    /\ UNCHANGED <<blif, model, merge_io_vectors, pc, cmd_i, wirevector_set, logic, next_tmp,
                   clk_set, ff_clk_set, mark, file, ver_name, tb_file>>

SpecSani == InitSani /\ [][RegisterName]_vars

----------------------------------------------------------------------------
(* The value of a wire: the nets read as the Verilog expressions that      *)
(* _to_verilog_combinational writes for them                               *)

Bit(v, i) == (v \div Pow2(i)) % 2

BitOp(op, x, y) ==
    IF op = "&" THEN x * y
    ELSE IF op = "|" THEN (IF x + y > 0 THEN 1 ELSE 0)
    ELSE (x + y) % 2

RECURSIVE Bitwise(_, _, _, _)
Bitwise(op, a, b, bw) ==
    IF bw = 0 THEN 0
    ELSE BitOp(op, Bit(a, bw - 1), Bit(b, bw - 1)) * Pow2(bw - 1) + Bitwise(op, a, b, bw - 1)

\* {v1, v2, ...}: the first operand in the most significant position
RECURSIVE ConcatValue(_, _, _)
ConcatValue(widths, vals, acc) ==
    IF vals = <<>> THEN acc
    ELSE ConcatValue(Tail(widths), Tail(vals), acc * Pow2(Head(widths)) + Head(vals))

\* {a[i_n], ..., a[i_1]} for the selection i_1, ..., i_n
RECURSIVE SelectValue(_, _, _)
SelectValue(sel, v, k) ==
    IF k > Len(sel) THEN 0
    ELSE Bit(v, sel[k]) * Pow2(k - 1) + SelectValue(sel, v, k + 1)

NetValue(ws, net, vals) ==
    IF net.op = "w" THEN vals[1]
    ELSE IF net.op = "~" THEN Pow2(ws[net.dests[1]].bitwidth) - 1 - vals[1]
    ELSE IF net.op \in {"&", "|", "^"}
    THEN Bitwise(net.op, vals[1], vals[2], ws[net.dests[1]].bitwidth)
    ELSE IF net.op = "c"
    THEN ConcatValue([k \in 1..Len(net.args) |-> ws[net.args[k]].bitwidth], vals, 0)
    ELSE IF net.op = "s" THEN SelectValue(net.op_param, vals[1], 1)
    ELSE -1

Drivers(nets, id) == {k \in 1..Len(nets) : nets[k].dests = <<id>>}

\* the value of wire id when the wires named in env have the values env
\* gives them; -1 for a wire that nothing drives
RECURSIVE WireValue(_, _, _, _)
WireValue(ws, nets, env, id) ==
    IF ws[id].name \in DOMAIN env THEN env[ws[id].name]
    ELSE IF ws[id].kind = "Const" THEN ws[id].val
    ELSE IF Drivers(nets, id) = {} THEN -1
    ELSE LET net == nets[CHOOSE k \in Drivers(nets, id) : TRUE]
         IN  NetValue(ws, net, [j \in 1..Len(net.args) |-> WireValue(ws, nets, env, net.args[j])])

\* the value that the nets give the wire named out
DrivenValue(ws, nets, env, out) ==
    LET id == get_wirevector_by_name(Block(ws, nets, 0), out)
    IN  IF id = 0 \/ Drivers(nets, id) = {} THEN -1
        ELSE LET net == nets[CHOOSE k \in Drivers(nets, id) : TRUE]
             IN  NetValue(ws, net,
                          [j \in 1..Len(net.args) |-> WireValue(ws, nets, env, net.args[j])])

\* the truth table of a cover: 1 when a row with output 1 matches the bits
CoverTable(cl, bits) ==
    LET Matches(row) ==
            /\ Len(row) = Len(bits)
            /\ \A i \in 1..Len(row) : row[i] = "-" \/ row[i] = DigitSeq[bits[i] + 1]
    IN  IF Len(bits) = 0
        THEN (IF \E r \in 1..Len(cl) : cl[r] = <<"1">> THEN 1 ELSE 0)
        ELSE (IF \E r \in 1..(Len(cl) \div 2) : cl[2 * r] = <<"1">> /\ Matches(cl[2 * r - 1])
              THEN 1 ELSE 0)

Range(s) == {s[i] : i \in 1..Len(s)}

----------------------------------------------------------------------------
(* Properties *)

\* a command has been handled without error
CommandDone == cmd_i > 1 /\ pc # "error"

LastCommand == model.command_list[cmd_i - 1]

\* the nets and the wires that the command handled last added
NewNets == SubSeq(logic, mark.l + 1, Len(logic))
NewWires == SubSeq(wirevector_set, mark.w + 1, Len(wirevector_set))

CoverInputs(command) ==
    SubSeq(command.namesignal_list, 1, Len(command.namesignal_list) - 1)

CoverOutput(command) == command.namesignal_list[Len(command.namesignal_list)]

RecognizedCovers ==
    {cover_false, cover_true, cover_wire, cover_not, cover_and, cover_nor,
     cover_or, cover_xor, cover_mux, cover_muxnor}

\* a cover for which extract_cover built logic (not a clock relay)
CoverBuilt ==
    /\ CommandDone
    /\ LastCommand.type = "name_def"
    /\ LastCommand.cover_list \in RecognizedCovers
    /\ NewNets # <<>>

\* C1: for each recognized cover and every assignment of 0/1 to its input
\* signals, the logic that extract_cover built gives the output signal the
\* value of the cover's truth table.
C1_CoverTruthTable ==
    CoverBuilt =>
        LET ins == CoverInputs(LastCommand)
        IN  \A env \in [Range(ins) -> {0, 1}] :
                DrivenValue(wirevector_set, NewNets, env, CoverOutput(LastCommand))
                    = CoverTable(LastCommand.cover_list, [i \in 1..Len(ins) |-> env[ins[i]]])

C1_Witness ==
    /\ CoverBuilt
    /\ LastCommand.cover_list = cover_muxnor
    /\ Len(NewNets) = 8

\* the declared names of a port list whose base name is base
Declared(list, base) == {n \in Range(list) : StripIndex(n) = base}

Bases(list) == Range(start_names(list))

BitCount(list, base) == CounterCount(start_names(list), base)

NamedWires(name) == {i \in 1..Len(wirevector_set) : wirevector_set[i].name = name}

\* exactly one wire has this name, and it is of this class and length
OneWire(name, kind, bitwidth) ==
    /\ Cardinality(NamedWires(name)) = 1
    /\ \A i \in NamedWires(name) :
          wirevector_set[i].kind = kind /\ wirevector_set[i].bitwidth = bitwidth

RECURSIVE ParseNat(_)
ParseNat(digits) ==
    IF digits = <<>> THEN 0
    ELSE 10 * ParseNat(SubSeq(digits, 1, Len(digits) - 1))
         + (CHOOSE d \in 0..9 : DigitSeq[d + 1] = digits[Len(digits)])

\* the index i of a name base[i]
IndexOf(name) == ParseNat(SubSeq(name, Len(StripIndex(name)) + 2, Len(name) - 1))

\* C3: with bundling, declared inputs base[i1], ..., base[ik] (k > 1) give
\* one k-bit input named base and, for every declared name base[i], one 1-bit
\* wire of that name whose value is bit i of the input.
C3_BundledInputs ==
    (pc = "outputs" /\ merge_io_vectors) =>
        \A base \in Bases(model.input_list) \ {n_clk} :
            LET k == BitCount(model.input_list, base)
            IN  k > 1 =>
                  /\ OneWire(base, "Input", k)
                  /\ \A n \in Declared(model.input_list, base) :
                        /\ OneWire(n, "WireVector", 1)
                        /\ \A v \in 0..(Pow2(k) - 1) :
                              \A i \in NamedWires(n) :
                                  WireValue(wirevector_set, logic, (base :> v), i)
                                      = Bit(v, IndexOf(n))

\* the case of C3 that the specification gives: a[0], a[1], a[2]
C3_ExampleHolds ==
    (pc = "outputs" /\ merge_io_vectors
        /\ Range(model.input_list) = {BitName(n_a, i) : i \in 0..(Len(model.input_list) - 1)})
    => C3_BundledInputs

\* C4: without bundling, or for a base name with one bit, every declared
\* input name that is not the clock is the name of one 1-bit Input.
C4_LiteralInputs ==
    pc = "outputs" =>
        \A n \in Range(model.input_list) :
            (/\ StripIndex(n) # n_clk
             /\ (~merge_io_vectors \/ BitCount(model.input_list, StripIndex(n)) = 1))
            => OneWire(n, "Input", 1)

\* C5: with bundling, declared outputs base[0..k-1] (k > 1) give one k-bit
\* output named base whose bit i is the value of the wire named base[i].
C5_BundledOutputs ==
    (pc = "commands" /\ cmd_i = 1 /\ merge_io_vectors) =>
        \A base \in Bases(model.output_list) :
            LET k    == BitCount(model.output_list, base)
                bits == {BitName(base, i) : i \in 0..(k - 1)}
            IN  (k > 1 /\ Declared(model.output_list, base) = bits) =>
                  /\ OneWire(base, "Output", k)
                  /\ \A env \in [bits -> {0, 1}] :
                        \A o \in NamedWires(base), i \in 0..(k - 1) :
                            Bit(WireValue(wirevector_set, logic, env, o), i)
                                = env[BitName(base, i)]

FlopDone == CommandDone /\ LastCommand.type \in {"dffas_def", "dffs_def"}

\* the same flip-flop written in the other form
OtherForm(c) ==
    IF c.type = "dffs_def" THEN Dffas(c.C, n_r, c.D, c.Q) ELSE Dffs(c.D, c.Q, c.C)

\* C6: a flip-flop command of either form adds one 1-bit register Q_reg whose
\* next value is the signal D and which drives the signal Q, and nothing
\* else: the clock name goes to ff_clk_set, no wire is made for C or R, and
\* the other form with the same D, Q and C gives the same block.
C6_FlopForms ==
    FlopDone =>
        LET c      == LastCommand
            blk    == TheBlock
            before == Block(SubSeq(wirevector_set, 1, mark.w), SubSeq(logic, 1, mark.l),
                            next_tmp)
            regs   == {i \in (mark.w + 1)..Len(wirevector_set) :
                           wirevector_set[i].kind = "Register"}
        IN  /\ Cardinality(regs) = 1
            /\ \A r \in regs :
                  /\ wirevector_set[r] = Wire(c.Q \o reg_suffix, "Register", 1, 0)
                  /\ NewNets =
                        <<LogicNet("r", <<>>, <<get_wirevector_by_name(blk, c.D)>>, <<r>>),
                          LogicNet("w", <<>>, <<r>>, <<get_wirevector_by_name(blk, c.Q)>>)>>
            /\ \A i \in 1..Len(NewWires) :
                  NewWires[i].name \in {c.Q \o reg_suffix, c.D, c.Q}
            /\ c.C \in ff_clk_set
            /\ extract_flop(before, {}, OtherForm(c)).blk = blk

C6_Witness ==
    /\ FlopDone
    /\ LastCommand.type = "dffas_def"
    /\ LastCommand.C \notin Range(WireNameSeq(wirevector_set))
    /\ Len(NewWires) = 2

\* the identifier that OutputToVerilog writes for the signal of this name
Ident(name) == internal_names.val_map[name]

\* the lines of the Verilog text that satisfy Test
Lines(Test(_)) == {k \in 1..Len(file) : Test(file[k])}

DeclKinds == {"input", "output", "reg", "wire"}

Exported == pc \in {"exported", "done"}

\* C2: after import and export of a BLIF with the input clk, neither clk nor
\* any alias of it (a name in clk_set) is a signal of the module or is
\* declared as input, output, wire or reg.
C2_ClockElided ==
    (Exported /\ n_clk \in Range(model.input_list)) =>
        \A n \in clk_set :
            /\ NamedWires(n) = {}
            /\ n \in DOMAIN internal_names.val_map =>
                  Lines(LAMBDA l : l.kind \in DeclKinds /\ l.dest = Ident(n)) = {}

FlopCommands ==
    {k \in 1..Len(model.command_list) : model.command_list[k].type \in {"dffas_def", "dffs_def"}}

\* a clocked assignment dest <= src of the sequential block
IsClocked(l, dest, src) ==
    l.kind = "nonblocking" /\ l.op = "" /\ l.dest = dest /\ l.args = <<src>>

\* the model is the single command .latch d q re c
SingleLatch ==
    /\ Len(model.command_list) = 1
    /\ model.command_list[1].type = "dffs_def"

\* C7 as stated: the export of a model with the one command .latch d q re c
\* has exactly one clocked assignment, which updates the register from its
\* next value, and no combinational assign whose destination is q.
C7_NoAssignForQ ==
    (Exported /\ SingleLatch) =>
        LET c == model.command_list[1]
        IN  /\ Cardinality(Lines(LAMBDA l : l.kind = "nonblocking")) = 1
            /\ Cardinality(Lines(LAMBDA l :
                   IsClocked(l, Ident(c.Q \o reg_suffix), Ident(c.D)))) = 1
            /\ Lines(LAMBDA l : l.kind = "assign" /\ l.dest = Ident(c.Q)) = {}

\* C7 (amended): every flip-flop command with data D and output Q gives one
\* clocked assignment Q_reg <= D and one combinational assign Q = Q_reg; for
\* the single command .latch d q re c these are the only clocked assignment
\* and the only assign with destination q.
C7_LatchExport ==
    Exported =>
        /\ \A k \in FlopCommands :
              LET c == model.command_list[k]
              IN  /\ Cardinality(Lines(LAMBDA l :
                         IsClocked(l, Ident(c.Q \o reg_suffix), Ident(c.D))))
                       = Cardinality({j \in FlopCommands :
                             /\ model.command_list[j].D = c.D
                             /\ model.command_list[j].Q = c.Q})
                  /\ Cardinality(Lines(LAMBDA l :
                         /\ l.kind = "assign" /\ l.dest = Ident(c.Q)
                         /\ l.op = "" /\ l.args = <<Ident(c.Q \o reg_suffix)>>))
                       = Cardinality({j \in FlopCommands : model.command_list[j].Q = c.Q})
        /\ SingleLatch =>
              LET c == model.command_list[1]
              IN  /\ Cardinality(Lines(LAMBDA l : l.kind = "nonblocking")) = 1
                  /\ Cardinality(Lines(LAMBDA l : l.kind = "assign" /\ l.dest = Ident(c.Q))) = 1

C7_Witness ==
    /\ pc = "exported"
    /\ SingleLatch
    /\ Lines(LAMBDA l : IsClocked(l, n_q \o reg_suffix, n_a)) # {}

\* the and covers of the model whose output no other command names
AndCommands ==
    {k \in 1..Len(model.command_list) :
        /\ model.command_list[k].type = "name_def"
        /\ model.command_list[k].cover_list = cover_and
        /\ \A j \in 1..Len(model.command_list) :
              j # k => /\ CoverOutput(model.command_list[k])
                            \notin Range(model.command_list[j].namesignal_list)
                       /\ CoverOutput(model.command_list[k])
                            \notin {model.command_list[j].D, model.command_list[j].Q}}

WireId(name) == get_wirevector_by_name(TheBlock, name)

\* the line mentions the identifier
Mentions(l, id) == l.dest = id \/ id \in Range(l.args)

\* C8 as stated: .names x y z with the row 11 1 adds one '&' net with
\* destination z and arguments x, y, and the export has for z exactly one
\* assign, z = x & y, and no clocked assignment that mentions z.
C8_AndDrivesOutput ==
    Exported =>
        \A k \in AndCommands :
            LET io == model.command_list[k].namesignal_list
                x  == io[1]
                y  == io[2]
                z  == io[3]
            IN  /\ Cardinality({n \in 1..Len(logic) :
                       /\ logic[n].op = "&"
                       /\ logic[n].dests = <<WireId(z)>>
                       /\ logic[n].args = <<WireId(x), WireId(y)>>}) = 1
                /\ Cardinality(Lines(LAMBDA l : l.kind = "assign" /\ l.dest = Ident(z))) = 1
                /\ \A n \in Lines(LAMBDA l : l.kind = "assign" /\ l.dest = Ident(z)) :
                      file[n].op = "&" /\ file[n].args = <<Ident(x), Ident(y)>>
                /\ Lines(LAMBDA l : l.kind = "nonblocking" /\ Mentions(l, Ident(z))) = {}

\* the wire is one that an operator made: it has a name of the block's
\* counter and no command of the model names it
Anonymous(id) ==
    /\ wirevector_set[id].kind = "WireVector"
    /\ SubSeq(wirevector_set[id].name, 1, Len(tmp_prefix)) = tmp_prefix
    /\ \A j \in 1..Len(model.command_list) :
          wirevector_set[id].name \notin Range(model.command_list[j].namesignal_list)

\* C8 (amended): .names x y z with the row 11 1 adds one '&' net with
\* arguments x, y whose destination is a new anonymous wire t, and one buffer
\* net from t to z; the export has t = x & y, for z exactly one assign,
\* z = t, and no clocked assignment that mentions z.
C8_AndExport ==
    Exported =>
        \A k \in AndCommands :
            LET io == model.command_list[k].namesignal_list
                x  == io[1]
                y  == io[2]
                z  == io[3]
                ts == {logic[n].args[1] : n \in {m \in 1..Len(logic) :
                           logic[m].op = "w" /\ logic[m].dests = <<WireId(z)>>}}
            IN  /\ Cardinality(Drivers(logic, WireId(z))) = 1
                /\ Cardinality(ts) = 1
                /\ \A t \in ts :
                      /\ Anonymous(t)
                      /\ Cardinality(Drivers(logic, t)) = 1
                      /\ \A n \in Drivers(logic, t) :
                            logic[n].op = "&" /\ logic[n].args = <<WireId(x), WireId(y)>>
                      /\ Cardinality(Lines(LAMBDA l :
                             l.kind = "assign" /\ l.dest = Ident(wirevector_set[t].name))) = 1
                      /\ \A n \in Lines(LAMBDA l :
                             l.kind = "assign" /\ l.dest = Ident(wirevector_set[t].name)) :
                            file[n].op = "&" /\ file[n].args = <<Ident(x), Ident(y)>>
                      /\ Cardinality(Lines(LAMBDA l :
                             l.kind = "assign" /\ l.dest = Ident(z))) = 1
                      /\ \A n \in Lines(LAMBDA l : l.kind = "assign" /\ l.dest = Ident(z)) :
                            file[n].op = "" /\ file[n].args = <<Ident(wirevector_set[t].name)>>
                /\ Lines(LAMBDA l : l.kind = "nonblocking" /\ Mentions(l, Ident(z))) = {}

C8_Witness ==
    /\ pc = "exported"
    /\ model.command_list = <<NameDef(<<n_x, n_y, n_z>>, cover_and)>>
    /\ Lines(LAMBDA l : l.kind = "assign" /\ l.op = "&" /\ l.args = <<n_x, n_y>>) # {}

\* C9: the identifiers that one sanitizer returns for distinct names are
\* pairwise distinct, and each is a legal Verilog identifier that is not a
\* reserved word.
C9_DistinctLegal ==
    LET vm == internal_names.val_map
    IN  \A n1 \in DOMAIN vm :
            /\ is_valid_str(vm[n1])
            /\ \A n2 \in DOMAIN vm : n1 # n2 => vm[n1] # vm[n2]

\* C10: the testbench uses, for every input and output, the identifier that
\* the module uses for it, in its declarations and in its port connections.
C10_TestbenchIdentifiers ==
    pc = "done" =>
        /\ \A i \in 1..Len(wirevector_set) :
              wirevector_set[i].kind \in {"Input", "Output"} =>
                  ver_name.val_map[wirevector_set[i].name] = Ident(wirevector_set[i].name)
        /\ \A m \in Lines(LAMBDA l : l.kind = "module") :
              \A t \in {k \in 1..Len(tb_file) : tb_file[k].kind = "tb_instance"} :
                  tb_file[t].args = file[m].args

----------------------------------------------------------------------------
(* The text of OutputToVerilog for built blocks *)

\* the identifier of the wire at position id
IdentOf(id) == Ident(wirevector_set[id].name)

Nets(ops) == {k \in 1..Len(logic) : logic[k].op \in ops}

\* the value of the expression c ? t : f of an assign line under values of
\* its identifiers
TernaryValue(l, val) == IF val[l.args[1]] # 0 THEN val[l.args[2]] ELSE val[l.args[3]]

\* C11: for every select net with arguments (condition s, false case B, true
\* case A) the assign written for its destination is a ternary expression
\* whose value is A when s is 1 and B when s is 0.
C11_SelectOrder ==
    Exported =>
        \A k \in Nets({"x"}) :
            LET s  == IdentOf(logic[k].args[1])
                B  == IdentOf(logic[k].args[2])
                A  == IdentOf(logic[k].args[3])
                ls == Lines(LAMBDA l : l.kind = "assign" /\ l.dest = IdentOf(logic[k].dests[1]))
            IN  /\ Cardinality(ls) = 1
                /\ \A n \in ls :
                      /\ file[n].op = "?:"
                      /\ \A val \in [{s, A, B} -> {0, 1}] :
                            TernaryValue(file[n], val) = IF val[s] = 1 THEN val[A] ELSE val[B]

C11_Witness ==
    /\ pc = "exported"
    /\ Nets({"x"}) # {}
    /\ Lines(LAMBDA l : l.kind = "assign" /\ l.op = "?:") # {}

\* the data width and the address width of the memory of a memory net
DataWidth(net) ==
    IF net.op = "m" THEN wirevector_set[net.dests[1]].bitwidth
    ELSE wirevector_set[net.args[2]].bitwidth

AddrWidth(net) == wirevector_set[net.args[1]].bitwidth

\* the entries of the initial blocks for the memory id, all or at one address
InitialEntries(id) == Lines(LAMBDA l : l.kind = "initial_entry" /\ l.param[1] = id)

InitialEntriesAt(id, i) ==
    Lines(LAMBDA l : l.kind = "initial_entry" /\ l.param[1] = id /\ l.param[2] = i)

\* C12: every memory with precomputed contents, of address width a and data
\* width d, gets one initial block with exactly 2^a entries, one for each
\* address, and the entry of address i has the value read at i and the
\* width qualifier d.
C12_InitialBlock ==
    Exported =>
        /\ Cardinality(Lines(LAMBDA l : l.kind = "initial_begin"))
             = Cardinality({MemId(logic[k]) : k \in {j \in Nets({"m", "@"}) : HasInitialData(logic[j])}})
        /\ \A k \in Nets({"m", "@"}) :
              HasInitialData(logic[k]) =>
                  /\ Cardinality(InitialEntries(MemId(logic[k]))) = Pow2(AddrWidth(logic[k]))
                  /\ \A i \in 0..(Pow2(AddrWidth(logic[k])) - 1) :
                        /\ Cardinality(InitialEntriesAt(MemId(logic[k]), i)) = 1
                        /\ \A n \in InitialEntriesAt(MemId(logic[k]), i) :
                              /\ file[n].param[4] = get_read_data(logic[k], i)
                              /\ file[n].param[3] = DataWidth(logic[k])

\* the texts of the claim: .model, .inputs, .outputs, zero or more commands, .end
SectionsInOrder(text) ==
    /\ Len(text) >= 4
    /\ SubSeq(text, 1, 3) = <<".model", ".inputs", ".outputs">>
    /\ text[Len(text)] = ".end"
    /\ \A k \in 4..(Len(text) - 1) : text[k] \in command_def

ParseFinished == pc \in {"parsed", "ParseException", "AssertionError"}

\* C13: the parser accepts the text exactly when its sections are .model,
\* .inputs, .outputs, zero or more commands, .end, once each in this order,
\* and rejects every other text with a parse error.
C13_SectionOrder ==
    ParseFinished =>
        IF SectionsInOrder(blif) THEN pc = "parsed" ELSE pc = "ParseException"

\* C14: when extract_cover meets a cover that is not in its table, the import
\* fails and the block is as before the call: it has none of the signals and
\* nets of the file.
C14_NoPartialSuccess ==
    (/\ cmd_i > 1
     /\ model.command_list[cmd_i - 1].type = "name_def"
     /\ model.command_list[cmd_i - 1].cover_list \notin RecognizedCovers) =>
        /\ pc = "error"
        /\ wirevector_set = <<>>
        /\ logic = <<>>

\* the lines that a step appends to the text
Appended == SubSeq(file', Len(file) + 1, Len(file'))

\* the positions of a sequence of lines that satisfy Test
LinesOf(text, Test(_)) == {k \in 1..Len(text) : Test(text[k])}

\* a write mem_<id>[address] <= data guarded by if (enable)
IsWrite(l, id, address, data, enable) ==
    l.kind = "memwrite" /\ l.param = <<id>> /\ l.args = <<enable, address, data>>

\* C15: the sequential stage writes one always @( posedge clk ) block with
\* one assignment dest <= next for every 'r' net and one guarded write
\* mem_<id>[address] <= data for every '@' net with arguments (address,
\* data, write-enable), and nothing else; the combinational stage writes no
\* register assignment and no memory write.
C15_SequentialStage ==
    [][ /\ (pc = "sequential" /\ pc' = "footer") =>
              /\ Len(Appended) = 3 + Cardinality(Nets({"r", "@"}))
              /\ Appended[1].kind = "always"
              /\ Appended[2].kind = "begin"
              /\ Appended[Len(Appended)].kind = "end"
              /\ Cardinality(LinesOf(Appended, LAMBDA l : l.kind = "always")) = 1
              /\ \A k \in Nets({"r"}) :
                    Cardinality(LinesOf(Appended, LAMBDA l :
                        IsClocked(l, IdentOf(logic[k].dests[1]), IdentOf(logic[k].args[1]))))
                      = Cardinality({j \in Nets({"r"}) :
                            /\ IdentOf(logic[j].dests[1]) = IdentOf(logic[k].dests[1])
                            /\ IdentOf(logic[j].args[1]) = IdentOf(logic[k].args[1])})
              /\ \A k \in Nets({"@"}) :
                    Cardinality(LinesOf(Appended, LAMBDA l :
                        IsWrite(l, MemId(logic[k]), IdentOf(logic[k].args[1]),
                                IdentOf(logic[k].args[2]), IdentOf(logic[k].args[3]))))
                      = Cardinality({j \in Nets({"@"}) :
                            /\ MemId(logic[j]) = MemId(logic[k])
                            /\ \A i \in 1..3 : IdentOf(logic[j].args[i]) = IdentOf(logic[k].args[i])})
        /\ (pc = "combinational" /\ pc' = "sequential") =>
              /\ LinesOf(Appended, LAMBDA l : l.kind = "memwrite") = {}
              /\ LinesOf(Appended, LAMBDA l : l.kind = "nonblocking" /\ l.op # "mem") = {}
              /\ \A k \in Nets({"r"}) :
                    LinesOf(Appended, LAMBDA l :
                        l.kind \in {"assign", "nonblocking"}
                        /\ l.dest = IdentOf(logic[k].dests[1])) = {}
      ]_vars

C15_Witness ==
    /\ pc = "footer"
    /\ Nets({"r"}) # {}
    /\ Lines(LAMBDA l : IsWrite(l, 1, <<"c","o","u","n","t">>, <<"w","d","a","t","a">>, <<"w","e">>)) # {}

\* the declarations of an identifier in the text: its input, output, reg or
\* wire lines, and for clk the line 'input clk;'
Declarations(id) ==
    Lines(LAMBDA l : \/ l.kind \in DeclKinds /\ l.dest = id
                     \/ l.kind = "input_clk" /\ id = ident_clk)

\* C16: every signal of the block is declared exactly once; an identifier
\* assigned with <= in a clocked block is declared reg, and an identifier
\* assigned by an assign is declared input, output or wire and never reg.
C16_Declarations ==
    Exported =>
        /\ \A w \in 1..Len(wirevector_set) : Cardinality(Declarations(IdentOf(w))) = 1
        /\ \A n \in Lines(LAMBDA l : l.kind = "nonblocking") :
              \A d \in Declarations(file[n].dest) : file[d].kind = "reg"
        /\ \A n \in Lines(LAMBDA l : l.kind \in {"assign", "assign_const"}) :
              \A d \in Declarations(file[n].dest) : file[d].kind \in {"input", "output", "wire"}

\* the stage that writes a line of this kind, 0 for the kinds that several
\* stages write (blank, always, begin, end)
StageOf(l) ==
    CASE l.kind = "comment" -> 1
      [] l.kind \in {"module", "input", "input_clk", "output", "reg", "wire", "memory",
                     "initial_begin", "initial_entry", "initial_end"} -> 2
      [] l.kind \in {"assign_const", "assign"} -> 3
      [] l.kind = "nonblocking" -> IF l.op = "mem" THEN 3 ELSE 4
      [] l.kind = "memwrite" -> 4
      [] l.kind = "endmodule" -> 5
      [] OTHER -> 0

\* the operators that the combinational stage writes as an assign
AssignOps == UnaryOps \cup BinaryOps \cup {"=", "x", "c", "s"}

\* C17: the text is written in the order comment, port list and
\* declarations, constants and assigns and memory-read blocks, the sequential
\* block, endmodule: no line of an earlier stage follows a line of a later
\* one, the sequential block is the last always block and no assign follows
\* it, and every net has one text in the combinational or the sequential
\* stage.
C17_StageOrder ==
    Exported =>
        /\ file[1].kind = "comment"
        /\ \A n \in Lines(LAMBDA l : l.kind = "endmodule") :
              \A j \in (n + 1)..Len(file) : file[j].kind = "blank"
        /\ Cardinality(Lines(LAMBDA l : l.kind = "module")) = 1
        /\ Cardinality(Lines(LAMBDA l : l.kind = "endmodule")) = 1
        /\ \A i, j \in 1..Len(file) :
              (i < j /\ StageOf(file[i]) # 0 /\ StageOf(file[j]) # 0) =>
                  StageOf(file[i]) <= StageOf(file[j])
        /\ Cardinality(Lines(LAMBDA l : l.kind = "always")) = 1 + Cardinality(Nets({"m"}))
        /\ \A a \in Lines(LAMBDA l : l.kind = "always") :
              (\A b \in Lines(LAMBDA l : l.kind = "always") : b <= a) =>
                  /\ \A n \in Lines(LAMBDA l : StageOf(l) \in {2, 3}) : n < a
                  /\ \A n \in Lines(LAMBDA l : StageOf(l) = 4) : n > a
        /\ Cardinality(Lines(LAMBDA l : l.kind = "assign")) = Cardinality(Nets(AssignOps))
        /\ Cardinality(Lines(LAMBDA l : l.kind = "nonblocking" /\ l.op = "mem"))
             = Cardinality(Nets({"m"}))
        /\ Cardinality(Lines(LAMBDA l : l.kind = "nonblocking" /\ l.op = ""))
             = Cardinality(Nets({"r"}))
        /\ Cardinality(Lines(LAMBDA l : l.kind = "memwrite")) = Cardinality(Nets({"@"}))

C17_Witness ==
    /\ pc = "exported"
    /\ Nets({"m"}) # {}
    /\ Nets({"@"}) # {}
    /\ Lines(LAMBDA l : l.kind = "assign_const") # {}
    /\ Lines(LAMBDA l : l.kind = "memory") # {}

\* the signal names of the commands handled so far, clock pins and reset
\* pins excepted
ReferencedNames ==
    UNION {IF model.command_list[k].type = "name_def"
           THEN Range(model.command_list[k].namesignal_list)
           ELSE {model.command_list[k].D, model.command_list[k].Q,
                 model.command_list[k].Q \o reg_suffix} : k \in 1..(cmd_i - 1)}

\* C18: after the ports and any number of commands, no two signals of the
\* block share a name, and every name that a handled command refers to,
\* names of clocks excepted, is the name of exactly one signal.
C18_OneSignalPerName ==
    pc \in {"commands", "imported"} =>
        /\ \A i, j \in 1..Len(wirevector_set) :
              i # j => wirevector_set[i].name # wirevector_set[j].name
        /\ \A name \in ReferencedNames \ clk_set : Cardinality(NamedWires(name)) = 1


====
